---- MODULE Spec2Model ----
(***************************************************************************)
(* queuectl: the job lifecycle engine and its leasing protocol.            *)
(*                                                                         *)
(* The store (storage.py) is one SQLite file.  Every public store call is  *)
(* one transaction, so each call is one atomic step; a lease is a SELECT   *)
(* followed by a conditional UPDATE, which are two steps.  Workers         *)
(* (worker.py) and command-line clients (cli.py, job_manager.py, dlq.py)   *)
(* are separate OS processes that interleave at store calls.               *)
(***************************************************************************)
EXTENDS Integers, Sequences, FiniteSets, TLC

(* ------------------------------------------------------------------ *)
(* Bounds of the model                                                  *)
(* ------------------------------------------------------------------ *)
MaxTime == 2
LongTime == 6
MaxErrors == 2
MaxRetryCalls == 2
MaxRetriesIn == 2
MaxTicks == 2
MaxLongTicks == 4
MaxRunAt == 1
MaxPriority == 1

(* ------------------------------------------------------------------ *)
(* Program constants                                                    *)
(* ------------------------------------------------------------------ *)
DefaultMaxRetries == 3
BackoffBase == 2
DefaultPriority == 0
DefaultTimeout == 3600

\* instants of the clock per second: datetime.utcnow() has sub-second
\* resolution; an instant t is TicksPerSecond * seconds + fraction
TicksPerSecond == 2

JobIds == {"j1", "j2"}
Workers == {"w1", "w2"}
Clients == {"c1", "c2"}

VALID_STATES == {"pending", "processing", "completed", "failed", "dead"}

\* SQL NULL / Python None, one per column type
NullTime == 0 - 1
NullWorker == "null"
NullText == "NULL"
NullDuration == 0 - 1
NoId == "none"
\* Worker.current_job = None
NoJob == [id |-> NoId]

VARIABLES
    now,          \* the wall clock every process reads
    jobs,         \* table jobs: id -> row (DOMAIN jobs = the ids present)
    job_logs,     \* table job_logs, in insertion order
    pc,           \* worker -> position in Worker.run
    cand,         \* worker -> id its lease SELECT returned
    lease_now,    \* worker -> `now` read at the start of the lease call
    current_job,  \* worker -> Worker.current_job (the leased row's copy)
    shutdown_requested, \* worker -> Worker.shutdown_requested
    beaten,       \* history: worker -> since its lease SELECT returned cand,
                  \*   another worker's conditional UPDATE has won that row
    retry_read,   \* client -> id whose row retry_dead_job read as dead
    last_call,    \* the most recent client call that returned, with its result
    errors,       \* store errors raised so far
    retry_calls,  \* retry_dead_job calls issued so far
    worker_pids,  \* worker_pids.json: the recorded worker processes
    remaining     \* stop_all_workers' list `remaining`, while it sleeps

vars == <<now, jobs, job_logs, pc, cand, lease_now, current_job,
          shutdown_requested, beaten, retry_read, last_call, errors, retry_calls,
          worker_pids, remaining>>

worker_vars == <<pc, cand, lease_now, current_job, shutdown_requested, beaten>>
cli_vars == <<worker_pids, remaining>>
client_vars == <<retry_read, last_call, retry_calls, cli_vars>>

(* ------------------------------------------------------------------ *)
(* Helpers                                                              *)
(* ------------------------------------------------------------------ *)
\* dict.get(key, default)
Get(d, k, default) == IF k \in DOMAIN d THEN d[k] ELSE default

RECURSIVE Pow(_, _)
Pow(b, n) == IF n <= 0 THEN 1 ELSE b * Pow(b, n - 1)

\* utils.calculate_next_retry_time: utcnow() + base ** attempts seconds
calculate_next_retry_time(attempts, backoff_base, t) ==
    t + Pow(backoff_base, attempts) * TicksPerSecond

\* datetime.isoformat(): 'YYYY-MM-DDTHH:MM:SS.ffffffZ', and without the
\* '.ffffff' part when the microsecond is 0
Seconds(t) == t \div TicksPerSecond

Fraction(t) == t % TicksPerSecond

\* SQLite compares the TEXT timestamps a and b as strings, a <= b: the fields
\* down to the second are fixed-width; within one second '.' sorts before 'Z',
\* so the timestamp without a fraction is the greatest of its second
TextLeq(a, b) ==
    \/ Seconds(a) < Seconds(b)
    \/ /\ Seconds(a) = Seconds(b)
       /\ \/ Fraction(b) = 0
          \/ Fraction(a) # 0 /\ Fraction(a) <= Fraction(b)

TextLess(a, b) == a # b /\ TextLeq(a, b)

(* ------------------------------------------------------------------ *)
(* Store (storage.py)                                                   *)
(* ------------------------------------------------------------------ *)
\* Storage.create_job: the row the INSERT writes for job_data, at clock t
CreateRow(d, t) ==
    [command       |-> d.command,
     state         |-> Get(d, "state", "pending"),
     attempts      |-> Get(d, "attempts", 0),
     max_retries   |-> Get(d, "max_retries", DefaultMaxRetries),
     created_at    |-> Get(d, "created_at", t),
     updated_at    |-> Get(d, "updated_at", t),
     next_retry_at |-> Get(d, "next_retry_at", NullTime),
     worker_id     |-> Get(d, "worker_id", NullWorker),
     priority      |-> Get(d, "priority", DefaultPriority),
     run_at        |-> Get(d, "run_at", NullTime),
     timeout       |-> Get(d, "timeout", NullTime),
     last_output   |-> Get(d, "last_output", NullText),
     duration_ms   |-> Get(d, "duration_ms", NullDuration)]

\* Storage.create_job: INSERT; a primary-key collision (IntegrityError) returns
\* False and writes nothing
create_job_ok(tbl, d) == d.id \notin DOMAIN tbl

\* mutant of create_job: INSERT OR REPLACE, a colliding insert overwrites
create_job_replace(tbl, d, t) ==
    [k \in DOMAIN tbl \cup {d.id} |-> IF k = d.id THEN CreateRow(d, t) ELSE tbl[k]]

create_job(tbl, d, t) ==
    IF create_job_ok(tbl, d)
    THEN [k \in DOMAIN tbl \cup {d.id} |-> IF k = d.id THEN CreateRow(d, t) ELSE tbl[k]]
    ELSE tbl

\* Storage.update_job: UPDATE jobs SET <updates>, updated_at = now WHERE id = ?
\* (unconditional on the row's state; no row, no effect)
update_job(tbl, id, updates, t) ==
    [k \in DOMAIN tbl |->
        IF k = id
        THEN [f \in DOMAIN tbl[k] |->
                IF f = "updated_at" THEN t
                ELSE IF f \in DOMAIN updates THEN updates[f]
                ELSE tbl[k][f]]
        ELSE tbl[k]]

\* mutant of LockMatches: the UPDATE's WHERE clause omits `AND state = ?`
LockMatches_AnyState(tbl, job_id, current_state) == job_id \in DOMAIN tbl

\* Storage._lock_job: UPDATE ... SET state='processing', worker_id, updated_at
\* WHERE id = ? AND state = ?; rowcount > 0 exactly when the row matched
LockMatches(tbl, job_id, current_state) ==
    job_id \in DOMAIN tbl /\ tbl[job_id].state = current_state

\* mutant of _lock_job: the UPDATE also clears next_retry_at
_lock_job_ClearRetry(tbl, job_id, current_state, worker_id, t) ==
    IF LockMatches(tbl, job_id, current_state)
    THEN [tbl EXCEPT ![job_id].state = "processing",
                     ![job_id].worker_id = worker_id,
                     ![job_id].updated_at = t,
                     ![job_id].next_retry_at = NullTime]
    ELSE tbl

_lock_job(tbl, job_id, current_state, worker_id, t) ==
    IF LockMatches(tbl, job_id, current_state)
    THEN [tbl EXCEPT ![job_id].state = "processing",
                     ![job_id].worker_id = worker_id,
                     ![job_id].updated_at = t]
    ELSE tbl

\* WHERE clause of Storage.get_pending_job
PendingEligible(tbl, j, t) ==
    /\ tbl[j].state = "pending"
    /\ (tbl[j].run_at = NullTime \/ TextLeq(tbl[j].run_at, t))
    /\ (tbl[j].next_retry_at = NullTime \/ TextLeq(tbl[j].next_retry_at, t))

\* ORDER BY priority DESC, run_at IS NOT NULL, run_at ASC, created_at ASC:
\* row a sorts strictly before row b
RunAtNotNull(r) == IF r.run_at = NullTime THEN 0 ELSE 1

PendingBefore(a, b) ==
    \/ a.priority > b.priority
    \/ /\ a.priority = b.priority
       /\ \/ RunAtNotNull(a) < RunAtNotNull(b)
          \/ /\ RunAtNotNull(a) = RunAtNotNull(b)
             /\ \/ TextLess(a.run_at, b.run_at)
                \/ a.run_at = b.run_at /\ TextLess(a.created_at, b.created_at)

\* mutant of PendingSelect: the SELECT returns no row, so the worker goes on
\* to the failed-retry lease whatever is pending
PendingSelect_NoRow(tbl, t) == {}

\* the rows LIMIT 1 may return (rows that tie are returned in any order)
PendingSelect(tbl, t) ==
    {j \in DOMAIN tbl :
        /\ PendingEligible(tbl, j, t)
        /\ \A k \in DOMAIN tbl :
              PendingEligible(tbl, k, t) => ~PendingBefore(tbl[k], tbl[j])}

\* WHERE clause of Storage.get_failed_job_ready_for_retry
FailedEligible(tbl, j, t) ==
    /\ tbl[j].state = "failed"
    /\ tbl[j].next_retry_at # NullTime
    /\ TextLeq(tbl[j].next_retry_at, t)

\* ORDER BY priority DESC, next_retry_at ASC
FailedBefore(a, b) ==
    \/ a.priority > b.priority
    \/ a.priority = b.priority /\ TextLess(a.next_retry_at, b.next_retry_at)

FailedSelect(tbl, t) ==
    {j \in DOMAIN tbl :
        /\ FailedEligible(tbl, j, t)
        /\ \A k \in DOMAIN tbl :
              FailedEligible(tbl, k, t) => ~FailedBefore(tbl[k], tbl[j])}

\* Storage.log_job_execution: INSERT INTO job_logs
log_job_execution(logs, job_id, state, success, attempts) ==
    Append(logs, [job_id |-> job_id, state |-> state,
                  success |-> success, attempts |-> attempts])

(* ------------------------------------------------------------------ *)
(* Lifecycle manager (job_manager.py)                                   *)
(* ------------------------------------------------------------------ *)
\* a value of a numeric field that int() rejects (a JSON string such as
\* "abc", a list, null): int(v) raises TypeError or ValueError
NotANumber == 0 - 2

\* a run_at that normalize_timestamp rejects: a string that
\* datetime.fromisoformat cannot parse, or a value that is not a string
InvalidTimestamp == 0 - 3

\* mutant of EnqueueValid: only the presence of id and command is checked
EnqueueValid_RequiredOnly(d) ==
    /\ "id" \in DOMAIN d
    /\ "command" \in DOMAIN d

\* JobManager.enqueue, the checks that raise ValueError before the INSERT
EnqueueValid(d) ==
    /\ "id" \in DOMAIN d
    /\ "command" \in DOMAIN d
    /\ Get(d, "priority", DefaultPriority) # NotANumber
    /\ Get(d, "run_at", NullTime) # InvalidTimestamp
    /\ Get(d, "timeout", DefaultTimeout) # NotANumber
    /\ Get(d, "timeout", DefaultTimeout) > 0
    /\ Get(d, "state", "pending") \in VALID_STATES

\* JobManager.enqueue: job_data after the setdefault calls and the coercions;
\* fields the caller supplied (state, attempts, worker_id, ...) are kept
EnqueueData(d, t) ==
    [id            |-> d.id,
     command       |-> d.command,
     state         |-> Get(d, "state", "pending"),
     attempts      |-> Get(d, "attempts", 0),
     max_retries   |-> Get(d, "max_retries", DefaultMaxRetries),
     created_at    |-> Get(d, "created_at", t),
     updated_at    |-> Get(d, "updated_at", t),
     next_retry_at |-> Get(d, "next_retry_at", NullTime),
     worker_id     |-> Get(d, "worker_id", NullWorker),
     priority      |-> Get(d, "priority", DefaultPriority),
     run_at        |-> Get(d, "run_at", NullTime),
     timeout       |-> Get(d, "timeout", DefaultTimeout),
     last_output   |-> Get(d, "last_output", NullText),
     duration_ms   |-> Get(d, "duration_ms", NullDuration)]

\* Worker._execute_command: the combined output of the command, by its
\* outcome, and the elapsed milliseconds it measured
CommandOutput(success) == IF success THEN "stdout" ELSE "stderr"

DurationMs == 1

\* str(exc), the output run's handler passes to mark_failed
ExceptionText == "exception"

\* mutant of MarkCompletedUpdates: the row stays owned by its worker
MarkCompletedUpdates_KeepWorker ==
    [state |-> "completed", next_retry_at |-> NullTime,
     last_output |-> CommandOutput(TRUE), duration_ms |-> DurationMs,
     run_at |-> NullTime]

\* JobManager.mark_completed: the fields update_job is given
MarkCompletedUpdates ==
    [state |-> "completed", worker_id |-> NullWorker,
     next_retry_at |-> NullTime,
     last_output |-> CommandOutput(TRUE), duration_ms |-> DurationMs,
     run_at |-> NullTime]

\* JobManager.mark_failed: attempts = int(job.get('attempts', 0)) + 1
FailedAttempts(job) == job.attempts + 1

\* mutant of IsTerminalFailure: the branch tests `attempts > max_retries`
IsTerminalFailure_Exceeds(job) == FailedAttempts(job) > job.max_retries

\* JobManager.mark_failed: the branch `attempts >= max_retries` (return False)
IsTerminalFailure(job) == FailedAttempts(job) >= job.max_retries

\* JobManager.mark_failed: the fields update_job is given, at clock t
MarkFailedUpdates(job, t) ==
    IF IsTerminalFailure(job)
    THEN [state |-> "dead", attempts |-> FailedAttempts(job),
          worker_id |-> NullWorker, next_retry_at |-> NullTime,
          last_output |-> CommandOutput(FALSE), duration_ms |-> DurationMs,
          run_at |-> NullTime]
    ELSE [state |-> "failed", attempts |-> FailedAttempts(job),
          next_retry_at |->
              calculate_next_retry_time(FailedAttempts(job), BackoffBase, t),
          worker_id |-> NullWorker,
          last_output |-> CommandOutput(FALSE), duration_ms |-> DurationMs]

\* mark_failed as run's handler calls it: output str(exc), duration_ms None
HandlerFailedUpdates(job, t) ==
    [f \in DOMAIN MarkFailedUpdates(job, t) |->
        IF f = "last_output" THEN ExceptionText
        ELSE IF f = "duration_ms" THEN NullDuration
        ELSE MarkFailedUpdates(job, t)[f]]

\* JobManager.retry_dead_job: the guard on the row that get_job returned
RetryGuard(tbl, job_id) == job_id \in DOMAIN tbl /\ tbl[job_id].state = "dead"

\* mutant of RetryDeadUpdates: the reset leaves attempts alone
RetryDeadUpdates_KeepAttempts ==
    [state |-> "pending", next_retry_at |-> NullTime,
     worker_id |-> NullWorker, run_at |-> NullTime]

\* JobManager.retry_dead_job: the fields update_job is given
RetryDeadUpdates ==
    [state |-> "pending", attempts |-> 0, next_retry_at |-> NullTime,
     worker_id |-> NullWorker, run_at |-> NullTime]

(* ------------------------------------------------------------------ *)
(* Inputs                                                               *)
(* ------------------------------------------------------------------ *)
\* submissions that carry only the fields of the documented schema
\* (id, command, optional max_retries); without max_retries the configured
\* default applies
SchemaSubmissions(ids) ==
    {[id |-> j, command |-> "cmd"] : j \in ids}
    \cup {[id |-> j, command |-> "cmd", max_retries |-> m] :
            j \in ids, m \in 0..MaxRetriesIn}

\* submissions that also set lifecycle fields, which enqueue keeps
CraftedSubmissions(ids) ==
    {[id |-> j, command |-> "cmd", state |-> "processing"] : j \in ids}
    \cup {[id |-> j, command |-> "cmd", worker_id |-> "w1"] : j \in ids}

\* submissions that enqueue rejects
InvalidSubmissions(ids) ==
    {[command |-> "cmd"]}
    \cup {[id |-> j] : j \in ids}
    \cup {[id |-> j, command |-> "cmd", timeout |-> 0] : j \in ids}

\* submissions whose optional fields cannot be coerced
MalformedSubmissions(ids) ==
    {[id |-> j, command |-> "cmd", priority |-> NotANumber] : j \in ids}
    \cup {[id |-> j, command |-> "cmd", timeout |-> NotANumber] : j \in ids}
    \cup {[id |-> j, command |-> "cmd", run_at |-> InvalidTimestamp] : j \in ids}

\* well-formed submissions with the defaults, and every kind of submission
\* that fails validation
ValidateSubmissions ==
    {[id |-> j, command |-> "cmd"] : j \in JobIds}
    \cup InvalidSubmissions(JobIds) \cup MalformedSubmissions(JobIds)

\* submissions that set the scheduling fields of the documented schema:
\* priority and run_at (an instant; normalize_timestamp rewrites the text of
\* the timestamp in UTC and keeps the instant)
ScheduleSubmissions(ids) ==
    {[id |-> j, command |-> "cmd", priority |-> p] :
        j \in ids, p \in 0..MaxPriority}
    \cup {[id |-> j, command |-> "cmd", priority |-> p, run_at |-> r] :
            j \in ids, p \in 0..MaxPriority, r \in 0..MaxRunAt}

\* every submission of SpecEnqueue and of the specifications of one job
Submissions ==
    SchemaSubmissions(JobIds) \cup CraftedSubmissions(JobIds)
    \cup InvalidSubmissions(JobIds)

\* every kind of submission, for two ids, with the configured max_retries
EnqueueSubmissions == {d \in Submissions : "max_retries" \notin DOMAIN d}

\* one job that may be retried: max_retries in 1..MaxRetriesIn
RaceSubmissions ==
    {d \in SchemaSubmissions({"j1"}) : Get(d, "max_retries", 0) >= 1}

\* no `worker stop` command is running
NotStopping == {NoId}

NoCall == [op |-> "none", arg |-> NoJob, result |-> "none"]

(* ------------------------------------------------------------------ *)
(* Initial state: an empty database, workers started and polling        *)
(* ------------------------------------------------------------------ *)
Init ==
    /\ now = 0
    /\ jobs = [k \in {} |-> NoJob]
    /\ job_logs = <<>>
    /\ pc = [w \in Workers |-> "poll"]
    /\ cand = [w \in Workers |-> NoId]
    /\ lease_now = [w \in Workers |-> 0]
    /\ current_job = [w \in Workers |-> NoJob]
    /\ shutdown_requested = [w \in Workers |-> FALSE]
    /\ beaten = [w \in Workers |-> FALSE]
    /\ retry_read = [c \in Clients |-> NoId]
    /\ last_call = NoCall
    /\ errors = 0
    /\ retry_calls = 0
    /\ worker_pids = Workers
    /\ remaining = NotStopping

\* the wall clock advances by one second, up to `limit` seconds
TickTo(limit) ==
    /\ now < limit * TicksPerSecond
    /\ now' = now + TicksPerSecond
    /\ UNCHANGED <<jobs, job_logs, worker_vars, client_vars, errors>>

Tick == TickTo(MaxTime)

LongTick == TickTo(LongTime)

\* the wall clock advances by less than a second, up to `limit` instants
SubTickTo(limit) ==
    /\ now < limit
    /\ now' = now + 1
    /\ UNCHANGED <<jobs, job_logs, worker_vars, client_vars, errors>>

SubTick == SubTickTo(MaxTicks)

LongSubTick == SubTickTo(MaxLongTicks)

(* ------------------------------------------------------------------ *)
(* Clients                                                              *)
(* ------------------------------------------------------------------ *)
\* JobManager.enqueue(job_data), called by `queuectl enqueue`
Enqueue(c, d) ==
    /\ retry_read[c] = NoId
    /\ IF ~EnqueueValid(d)
       THEN /\ last_call' = [op |-> "enqueue", arg |-> d, result |-> "invalid"]
            /\ jobs' = jobs
       ELSE /\ jobs' = create_job(jobs, EnqueueData(d, now), now)
            /\ last_call' =
                 [op |-> "enqueue", arg |-> d,
                  result |-> IF create_job_ok(jobs, d) THEN "ok" ELSE "duplicate"]
    /\ UNCHANGED <<now, job_logs, worker_vars, retry_read, errors, retry_calls,
                   cli_vars>>

\* JobManager.retry_dead_job, first store call: job = storage.get_job(job_id)
RetryRead(c, j) ==
    /\ retry_read[c] = NoId
    /\ retry_calls < MaxRetryCalls
    /\ retry_calls' = retry_calls + 1
    /\ IF RetryGuard(jobs, j)
       THEN /\ retry_read' = [retry_read EXCEPT ![c] = j]
            /\ last_call' = last_call
       ELSE /\ retry_read' = retry_read
            /\ last_call' = [op |-> "retry_dead_job", arg |-> [id |-> j],
                             result |-> "false"]
    /\ UNCHANGED <<now, jobs, job_logs, worker_vars, errors, cli_vars>>

\* JobManager.retry_dead_job, second store call: update_job, then return True
RetryWrite(c) ==
    /\ retry_read[c] # NoId
    /\ jobs' = update_job(jobs, retry_read[c], RetryDeadUpdates, now)
    /\ last_call' = [op |-> "retry_dead_job", arg |-> [id |-> retry_read[c]],
                     result |-> "true"]
    /\ retry_read' = [retry_read EXCEPT ![c] = NoId]
    /\ UNCHANGED <<now, job_logs, worker_vars, errors, retry_calls, cli_vars>>

\* is_process_running(pid): the worker process has not exited
Alive(w) == pc[w] \notin {"stopped", "killed"}

\* stop_all_workers, up to time.sleep(2): pids = load_worker_pids(); SIGTERM is
\* sent to every recorded pid. failed = the pids for which os.kill raised an
\* OSError other than ProcessLookupError, which alone go to `remaining`
StopSignal ==
    /\ remaining = NotStopping
    /\ \E failed \in SUBSET worker_pids :
         /\ remaining' = failed
         /\ shutdown_requested' =
              [w \in Workers |->
                  IF w \in worker_pids \ failed /\ Alive(w)
                  THEN TRUE ELSE shutdown_requested[w]]
    /\ UNCHANGED <<beaten, now, jobs, job_logs, pc, cand, lease_now, current_job,
                   retry_read, last_call, retry_calls, worker_pids, errors>>

\* stop_all_workers, after the sleep:
\* save_worker_pids([pid for pid in remaining if is_process_running(pid)])
StopSave ==
    /\ remaining # NotStopping
    /\ worker_pids' = {w \in remaining : Alive(w)}
    /\ remaining' = NotStopping
    /\ UNCHANGED <<now, jobs, job_logs, worker_vars, retry_read, last_call,
                   retry_calls, errors>>

(* ------------------------------------------------------------------ *)
(* Worker loop (worker.py)                                              *)
(*   pc: poll         top of `while`, about to call get_pending_job     *)
(*       pend_lock    get_pending_job selected cand, about to _lock_job *)
(*       fail_select  about to call get_failed_job_ready_for_retry      *)
(*       fail_lock    that call selected cand, about to _lock_job       *)
(*       exec         _process_job: running the command / posting       *)
(*       log_*        mark_* updated the row, about to log_job_execution*)
(*       except       `except Exception`, about to mark_failed          *)
(*       except_log   the handler's mark_failed, about to log           *)
(*       stopped      the loop has exited                               *)
(* ------------------------------------------------------------------ *)
\* history of the race for a candidate: worker w ran its conditional UPDATE
\* for row j; `won` tells whether it affected the row
BeatenAfterLock(w, j, won) ==
    [x \in Workers |->
        IF x = w THEN FALSE
        ELSE IF won /\ pc[x] \in {"pend_lock", "fail_lock"} /\ cand[x] = j THEN TRUE
        ELSE beaten[x]]

\* the row a lease returns: dict(row) of SELECT * after the UPDATE
LeasedJob(tbl, job_id) ==
    [f \in DOMAIN tbl[job_id] \cup {"id"} |->
        IF f = "id" THEN job_id ELSE tbl[job_id][f]]

\* Worker._signal_handler (SIGINT / SIGTERM)
Signal(w) ==
    /\ pc[w] # "stopped"
    /\ ~shutdown_requested[w]
    /\ shutdown_requested' = [shutdown_requested EXCEPT ![w] = TRUE]
    /\ UNCHANGED <<beaten, now, jobs, job_logs, pc, cand, lease_now, current_job,
                   client_vars, errors>>

\* mutant of Stop: the loop is left as soon as the flag is set, wherever the
\* worker is
Stop_Anywhere(w) ==
    /\ pc[w] # "stopped"
    /\ shutdown_requested[w]
    /\ pc' = [pc EXCEPT ![w] = "stopped"]
    /\ UNCHANGED <<beaten, now, jobs, job_logs, cand, lease_now, current_job,
                   shutdown_requested, client_vars, errors>>

\* Worker.run: `while self.running and not self.shutdown_requested` is false
Stop(w) ==
    /\ pc[w] = "poll"
    /\ shutdown_requested[w]
    /\ pc' = [pc EXCEPT ![w] = "stopped"]
    /\ UNCHANGED <<beaten, now, jobs, job_logs, cand, lease_now, current_job,
                   shutdown_requested, client_vars, errors>>

\* Storage.get_pending_job: now = get_current_timestamp(); SELECT ... LIMIT 1
PendSelect(w) ==
    /\ pc[w] = "poll"
    /\ ~shutdown_requested[w]
    /\ lease_now' = [lease_now EXCEPT ![w] = now]
    /\ IF PendingSelect(jobs, now) = {}
       THEN /\ pc' = [pc EXCEPT ![w] = "fail_select"]
            /\ cand' = cand
       ELSE \E j \in PendingSelect(jobs, now) :
            /\ pc' = [pc EXCEPT ![w] = "pend_lock"]
            /\ cand' = [cand EXCEPT ![w] = j]
    /\ UNCHANGED <<beaten, now, jobs, job_logs, current_job, shutdown_requested,
                   client_vars, errors>>

\* Storage.get_pending_job: _lock_job(cursor, job_id, 'pending', ...); commit
PendLock(w) ==
    /\ pc[w] = "pend_lock"
    /\ jobs' = _lock_job(jobs, cand[w], "pending", w, lease_now[w])
    /\ IF LockMatches(jobs, cand[w], "pending")
       THEN /\ current_job' = [current_job EXCEPT ![w] = LeasedJob(jobs', cand[w])]
            /\ pc' = [pc EXCEPT ![w] = "exec"]
       ELSE /\ current_job' = current_job
            /\ pc' = [pc EXCEPT ![w] = "fail_select"]
    /\ cand' = [cand EXCEPT ![w] = NoId]
    /\ beaten' = BeatenAfterLock(w, cand[w], LockMatches(jobs, cand[w], "pending"))
    /\ UNCHANGED <<now, job_logs, lease_now, shutdown_requested,
                   client_vars, errors>>

\* Storage.get_failed_job_ready_for_retry: now = ...; SELECT ... LIMIT 1
FailSelect(w) ==
    /\ pc[w] = "fail_select"
    /\ lease_now' = [lease_now EXCEPT ![w] = now]
    /\ IF FailedSelect(jobs, now) = {}
       THEN /\ pc' = [pc EXCEPT ![w] = "poll"]
            /\ cand' = cand
       ELSE \E j \in FailedSelect(jobs, now) :
            /\ pc' = [pc EXCEPT ![w] = "fail_lock"]
            /\ cand' = [cand EXCEPT ![w] = j]
    /\ UNCHANGED <<beaten, now, jobs, job_logs, current_job, shutdown_requested,
                   client_vars, errors>>

\* Storage.get_failed_job_ready_for_retry: _lock_job(..., 'failed', ...); commit
FailLock(w) ==
    /\ pc[w] = "fail_lock"
    /\ jobs' = _lock_job(jobs, cand[w], "failed", w, lease_now[w])
    /\ IF LockMatches(jobs, cand[w], "failed")
       THEN /\ current_job' = [current_job EXCEPT ![w] = LeasedJob(jobs', cand[w])]
            /\ pc' = [pc EXCEPT ![w] = "exec"]
       ELSE /\ current_job' = current_job
            /\ pc' = [pc EXCEPT ![w] = "poll"]
    /\ cand' = [cand EXCEPT ![w] = NoId]
    /\ beaten' = BeatenAfterLock(w, cand[w], LockMatches(jobs, cand[w], "failed"))
    /\ UNCHANGED <<now, job_logs, lease_now, shutdown_requested,
                   client_vars, errors>>

\* Worker._process_job, command exited 0: JobManager.mark_completed's update_job
ProcessSuccess(w) ==
    /\ pc[w] = "exec"
    /\ jobs' = update_job(jobs, current_job[w].id, MarkCompletedUpdates, now)
    /\ pc' = [pc EXCEPT ![w] = "log_completed"]
    /\ UNCHANGED <<beaten, now, job_logs, cand, lease_now, current_job,
                   shutdown_requested, client_vars, errors>>

\* Worker._process_job, command failed: JobManager.mark_failed's update_job
ProcessFailure(w) ==
    /\ pc[w] = "exec"
    /\ jobs' = update_job(jobs, current_job[w].id,
                          MarkFailedUpdates(current_job[w], now), now)
    /\ pc' = [pc EXCEPT ![w] =
                IF IsTerminalFailure(current_job[w]) THEN "log_dead" ELSE "log_failed"]
    /\ UNCHANGED <<beaten, now, job_logs, cand, lease_now, current_job,
                   shutdown_requested, client_vars, errors>>

\* the state and attempts mark_completed / mark_failed pass to log_job_execution
LogState(p) ==
    IF p = "log_completed" THEN "completed"
    ELSE IF p = "log_dead" THEN "dead" ELSE "failed"

LogAttempts(p, job) ==
    IF p = "log_completed" THEN job.attempts ELSE FailedAttempts(job)

\* mark_*'s log_job_execution; back in run: self.current_job = None
LogExecution(w) ==
    /\ pc[w] \in {"log_completed", "log_failed", "log_dead"}
    /\ job_logs' = log_job_execution(job_logs, current_job[w].id, LogState(pc[w]),
                                     pc[w] = "log_completed",
                                     LogAttempts(pc[w], current_job[w]))
    /\ current_job' = [current_job EXCEPT ![w] = NoJob]
    /\ pc' = [pc EXCEPT ![w] = "poll"]
    /\ UNCHANGED <<beaten, now, jobs, cand, lease_now, shutdown_requested,
                   client_vars, errors>>

\* a store call of a lease raises (sqlite3.OperationalError): the transaction
\* is not committed; run's handler finds current_job None and sleeps
LeaseError(w) ==
    /\ \/ pc[w] = "poll" /\ ~shutdown_requested[w]
       \/ pc[w] \in {"pend_lock", "fail_select", "fail_lock"}
    /\ errors < MaxErrors
    /\ errors' = errors + 1
    /\ pc' = [pc EXCEPT ![w] = "poll"]
    /\ cand' = [cand EXCEPT ![w] = NoId]
    /\ beaten' = [beaten EXCEPT ![w] = FALSE]
    /\ UNCHANGED <<now, jobs, job_logs, lease_now, current_job,
                   shutdown_requested, client_vars>>

\* update_job or log_job_execution raises inside _process_job: control passes
\* to `except Exception` in run with current_job still set
ProcessError(w) ==
    /\ pc[w] \in {"exec", "log_completed", "log_failed", "log_dead"}
    /\ errors < MaxErrors
    /\ errors' = errors + 1
    /\ pc' = [pc EXCEPT ![w] = "except"]
    /\ UNCHANGED <<beaten, now, jobs, job_logs, cand, lease_now, current_job,
                   shutdown_requested, client_vars>>

\* mutant of HandlerMarkFailed: the handler leaves the row of the current job
\* alone
HandlerMarkFailed_Skip(w) ==
    /\ pc[w] = "except"
    /\ pc' = [pc EXCEPT ![w] = "except_log"]
    /\ UNCHANGED <<beaten, now, jobs, job_logs, cand, lease_now, current_job,
                   shutdown_requested, client_vars, errors>>

\* run's handler: job_manager.mark_failed(self.current_job, ...), its update_job
HandlerMarkFailed(w) ==
    /\ pc[w] = "except"
    /\ jobs' = update_job(jobs, current_job[w].id,
                          HandlerFailedUpdates(current_job[w], now), now)
    /\ pc' = [pc EXCEPT ![w] = "except_log"]
    /\ UNCHANGED <<beaten, now, job_logs, cand, lease_now, current_job,
                   shutdown_requested, client_vars, errors>>

\* the handler's mark_failed logs; self.current_job = None; sleep
HandlerLog(w) ==
    /\ pc[w] = "except_log"
    /\ job_logs' = log_job_execution(job_logs, current_job[w].id,
                       IF IsTerminalFailure(current_job[w]) THEN "dead" ELSE "failed",
                       FALSE, FailedAttempts(current_job[w]))
    /\ current_job' = [current_job EXCEPT ![w] = NoJob]
    /\ pc' = [pc EXCEPT ![w] = "poll"]
    /\ UNCHANGED <<beaten, now, jobs, cand, lease_now, shutdown_requested,
                   client_vars, errors>>

\* the handler's mark_failed raises in turn: `except Exception: pass`
HandlerError(w) ==
    /\ pc[w] \in {"except", "except_log"}
    /\ errors < MaxErrors
    /\ errors' = errors + 1
    /\ current_job' = [current_job EXCEPT ![w] = NoJob]
    /\ pc' = [pc EXCEPT ![w] = "poll"]
    /\ UNCHANGED <<beaten, now, jobs, job_logs, cand, lease_now, shutdown_requested,
                   client_vars>>

\* the worker process is killed (SIGKILL, power loss) while it holds a lease:
\* it takes no further step, and nothing it held is released
Kill(w) ==
    /\ pc[w] \in {"exec", "log_completed", "log_failed", "log_dead"}
    /\ pc' = [pc EXCEPT ![w] = "killed"]
    /\ UNCHANGED <<beaten, now, jobs, job_logs, cand, lease_now, current_job,
                   shutdown_requested, client_vars, errors>>

LeaseSteps(w) ==
    \/ PendSelect(w)
    \/ PendLock(w)
    \/ FailSelect(w)
    \/ FailLock(w)

PostSteps(w) ==
    \/ ProcessSuccess(w)
    \/ ProcessFailure(w)
    \/ LogExecution(w)

ErrorSteps(w) ==
    \/ LeaseError(w)
    \/ ProcessError(w)
    \/ HandlerMarkFailed(w)
    \/ HandlerLog(w)
    \/ HandlerError(w)

ShutdownSteps(w) ==
    \/ Signal(w)
    \/ Stop(w)

RetrySteps(c) ==
    \/ \E j \in JobIds : RetryRead(c, j)
    \/ RetryWrite(c)

(* ------------------------------------------------------------------ *)
(* Specifications                                                       *)
(* ------------------------------------------------------------------ *)
\* Several workers and several clients race on one retryable job.
Next ==
    \/ Tick
    \/ \E c \in Clients : \E d \in RaceSubmissions : Enqueue(c, d)
    \/ \E c \in Clients : RetrySteps(c)
    \/ \E w \in Workers : LeaseSteps(w) \/ PostSteps(w)

Spec == Init /\ [][Next]_vars

\* One worker, one client, one job: the life of a job with no race.
NextSequential ==
    \/ LongTick
    \/ \E d \in SchemaSubmissions({"j1"}) : Enqueue("c1", d)
    \/ LeaseSteps("w1") \/ PostSteps("w1")

SpecSequential == Init /\ [][NextSequential]_vars

\* Every kind of submission, from several clients, while a worker runs jobs.
NextEnqueue ==
    \/ Tick
    \/ \E c \in Clients : \E d \in EnqueueSubmissions : Enqueue(c, d)
    \/ LeaseSteps("w1") \/ PostSteps("w1")

SpecEnqueue == Init /\ [][NextEnqueue]_vars

\* Workers whose store calls may raise.
NextErrors ==
    \/ Tick
    \/ \E d \in RaceSubmissions : Enqueue("c1", d)
    \/ \E w \in Workers : LeaseSteps(w) \/ PostSteps(w) \/ ErrorSteps(w)

SpecErrors == Init /\ [][NextErrors]_vars

\* One worker and jobs with priorities and run_at whose commands succeed, on a
\* clock that is read at instants within a second.
NextSchedule ==
    \/ SubTick
    \/ \E d \in ScheduleSubmissions(JobIds) : Enqueue("c1", d)
    \/ PendSelect("w1") \/ PendLock("w1") \/ FailSelect("w1")
    \/ ProcessSuccess("w1") \/ LogExecution("w1")

SpecSchedule == Init /\ [][NextSchedule]_vars

\* Several workers race on the retries of one job with the configured
\* max_retries.
NextRetryRace ==
    \/ Tick
    \/ Enqueue("c1", [id |-> "j1", command |-> "cmd"])
    \/ \E w \in Workers : LeaseSteps(w) \/ PostSteps(w)

SpecRetryRace == Init /\ [][NextRetryRace]_vars

\* Several workers, with pending jobs and jobs waiting for a retry side by
\* side.
NextPreference ==
    \/ Tick
    \/ \E j \in JobIds : Enqueue("c1", [id |-> j, command |-> "cmd"])
    \/ \E w \in Workers : LeaseSteps(w) \/ PostSteps(w)

SpecPreference == Init /\ [][NextPreference]_vars

\* One worker retries one job, on a clock that is read at instants within a
\* second.
NextClock ==
    \/ LongSubTick
    \/ Enqueue("c1", [id |-> "j1", command |-> "cmd"])
    \/ LeaseSteps("w1") \/ PostSteps("w1")

SpecClock == Init /\ [][NextClock]_vars

(* ------------------------------------------------------------------ *)
(* Claims                                                               *)
(* ------------------------------------------------------------------ *)
\* worker w is executing job j: it leased j and has not yet posted the outcome
Executing(w, j) == pc[w] = "exec" /\ current_job[w].id = j

\* C1: at every instant at most one worker is executing any given job, under
\* every interleaving of workers' lease/execute/report steps with enqueue and
\* retry_dead_job calls of concurrent clients.
C1_LeaseExclusive ==
    \A j \in JobIds : \A w1, w2 \in Workers :
        Executing(w1, j) /\ Executing(w2, j) => w1 = w2

\* worker w runs the conditional UPDATE of its lease in this step
LockStep(w) == pc[w] \in {"pend_lock", "fail_lock"} /\ pc'[w] # pc[w]

\* the state the lease of worker w selected its candidate in
SourceState(w) == IF pc[w] = "pend_lock" THEN "pending" ELSE "failed"

\* the conditional UPDATE of worker w affected the row: w holds it, the row is
\* processing and stamped with w
LockWon(w) ==
    /\ pc'[w] = "exec"
    /\ current_job'[w].id = cand[w]
    /\ current_job'[w].state = "processing"
    /\ current_job'[w].worker_id = w
    /\ jobs'[cand[w]].state = "processing"
    /\ jobs'[cand[w]].worker_id = w

\* the conditional UPDATE of worker w affected zero rows: w receives null
LockLost(w) ==
    /\ pc'[w] # "exec"
    /\ current_job'[w] = NoJob
    /\ jobs' = jobs

\* C2 (as stated): of the workers that selected the same candidate row, exactly
\* one conditional UPDATE affects the row; every other worker's UPDATE affects
\* zero rows and it receives null.
C2_ExactlyOneWins ==
    [][\A w \in Workers : LockStep(w) /\ beaten[w] => LockLost(w)]_vars

\* C2 (amended): a worker's conditional UPDATE affects the row exactly when the
\* row is in the selected source state at the moment of the UPDATE; the winner
\* receives the row in state processing stamped with its own worker_id; an
\* UPDATE that finds the row in another state (e.g. still leased by the winner)
\* affects zero rows and returns null.
C2_CasOnSourceState ==
    [][\A w \in Workers :
         LockStep(w) =>
            IF jobs[cand[w]].state = SourceState(w)
            THEN LockWon(w)
            ELSE LockLost(w)]_vars

\* two workers selected the same row; one has won it and is executing, the
\* other is about to run its conditional UPDATE against the leased row
C2_Witness ==
    \E w1, w2 \in Workers :
        /\ w1 # w2
        /\ pc[w2] \in {"pend_lock", "fail_lock"}
        /\ beaten[w2]
        /\ Executing(w1, cand[w2])
        /\ jobs[cand[w2]].state = "processing"
        /\ jobs[cand[w2]].worker_id = w1

\* C3: in every reachable state, for every job: state = processing implies
\* worker_id non-null, and any other state implies worker_id null.
C3_WorkerIdIffProcessing ==
    \A j \in DOMAIN jobs :
        (jobs[j].state = "processing") <=> (jobs[j].worker_id # NullWorker)

\* the edges of the job state machine
AllowedEdges ==
    {<<"pending", "processing">>, <<"failed", "processing">>,
     <<"processing", "completed">>, <<"processing", "failed">>,
     <<"processing", "dead">>, <<"dead", "pending">>}

\* C4: every change of a job's state, in every execution of workers and
\* clients, is one of the allowed edges.
C4_OnlyAllowedEdges ==
    [][\A j \in DOMAIN jobs :
         jobs'[j].state # jobs[j].state
            => <<jobs[j].state, jobs'[j].state>> \in AllowedEdges]_vars

\* C5: a completed job never changes state again and is never leased again; a
\* dead job changes state only by retry_dead_job (to pending); also when a
\* worker's store call raises.
C5_TerminalStates ==
    [][\A j \in DOMAIN jobs :
         /\ jobs[j].state = "completed" =>
               /\ jobs'[j].state = "completed"
               /\ \A w \in Workers :
                     pc[w] # "exec" /\ pc'[w] = "exec" => current_job'[w].id # j
         /\ jobs[j].state = "dead" /\ jobs'[j].state # "dead" =>
               /\ jobs'[j].state = "pending"
               /\ \E c \in Clients : retry_read[c] = j /\ retry_read'[c] = NoId]_vars

\* an enqueue call with submission d returns in this step
EnqueueReturns(d) ==
    /\ last_call' # last_call
    /\ last_call'.op = "enqueue"
    /\ last_call'.arg = d

\* C6: of enqueue calls with the same id exactly one succeeds (the one that
\* finds no row with that id) and every other fails with a duplicate error;
\* the row holds the fields of the successful call, and a colliding call
\* writes nothing.
C6_EnqueueUnique ==
    [][/\ DOMAIN jobs \subseteq DOMAIN jobs'
       /\ \A d \in Submissions :
            EnqueueReturns(d) /\ "id" \in DOMAIN d =>
               IF d.id \in DOMAIN jobs
               THEN /\ last_call'.result \in {"duplicate", "invalid"}
                    /\ jobs' = jobs
               ELSE /\ last_call'.result \in {"ok", "invalid"}
                    /\ last_call'.result = "invalid" => jobs' = jobs
                    /\ last_call'.result = "ok" =>
                          /\ DOMAIN jobs' = DOMAIN jobs \cup {d.id}
                          /\ \A k \in DOMAIN jobs : jobs'[k] = jobs[k]
                          /\ \A f \in DOMAIN d \ {"id"} : jobs'[d.id][f] = d[f]]_vars

\* an enqueue with an id already present, and with fields that differ from the
\* stored row, has returned the duplicate error
C6_Witness ==
    /\ last_call.op = "enqueue"
    /\ last_call.result = "duplicate"
    /\ last_call.arg.id \in DOMAIN jobs
    /\ \E f \in DOMAIN last_call.arg \ {"id"} :
          jobs[last_call.arg.id][f] # last_call.arg[f]

\* the failed attempts of job j posted so far: logged, or posted by a worker
\* that is about to log
FailuresPosted(j) ==
    Cardinality({i \in DOMAIN job_logs :
                    job_logs[i].job_id = j /\ ~job_logs[i].success})
    + Cardinality({w \in Workers :
                    pc[w] \in {"log_failed", "log_dead"} /\ current_job[w].id = j})

C8_DeadOnThirdFailure ==
    \A j \in DOMAIN jobs :
        jobs[j].max_retries = 2 =>
            /\ FailuresPosted(j) <= 2 => jobs[j].state # "dead"
            /\ jobs[j].state = "dead" => jobs[j].attempts = 3

\* C9: for every job enqueue accepts, attempts >= 0 always, and a dead job has
\* attempts = max_retries.
C9_DeadAttemptsEqualMax ==
    \A j \in DOMAIN jobs :
        /\ jobs[j].attempts >= 0
        /\ jobs[j].state = "dead" => jobs[j].attempts = jobs[j].max_retries

\* C10: a failed job has a non-null next_retry_at and a job in any other state
\* has next_retry_at = null.
C10_NextRetryIffFailed ==
    \A j \in DOMAIN jobs :
        (jobs[j].state = "failed") <=> (jobs[j].next_retry_at # NullTime)

\* C11: for every job, updated_at never decreases, across every interleaving
\* of enqueue, lease, mark_completed, mark_failed and retry_dead_job, with a
\* non-decreasing clock that a lease reads before its SELECT and stamps in its
\* later conditional UPDATE.
C11_UpdatedAtMonotone ==
    [][\A j \in DOMAIN jobs : jobs'[j].updated_at >= jobs[j].updated_at]_vars

\* C12: a pending job whose run_at is later than the current time is never
\* leased: no step moves a job from pending to processing at an instant
\* earlier than its run_at.
C12_NotLeasedBeforeRunAt ==
    [][\A j \in DOMAIN jobs :
         jobs[j].state = "pending" /\ jobs'[j].state = "processing"
            => jobs[j].run_at = NullTime \/ jobs[j].run_at <= now]_vars

\* C13: a failed job is never moved to processing at an instant when the
\* next_retry_at stored on its row is later than now, under every interleaving
\* of several workers.
C13_NotRetriedBeforeNextRetryAt ==
    [][\A j \in DOMAIN jobs :
         jobs[j].state = "failed" /\ jobs'[j].state = "processing"
            => jobs[j].next_retry_at <= now]_vars

\* job j is eligible for the pending lease at the instant `now`: state
\* pending, run_at null or not later than now, next_retry_at null or not later
\* than now
EligiblePending(j) ==
    /\ jobs[j].state = "pending"
    /\ (jobs[j].run_at = NullTime \/ jobs[j].run_at <= now)
    /\ (jobs[j].next_retry_at = NullTime \/ jobs[j].next_retry_at <= now)

\* the SELECT of get_pending_job of worker w returns a candidate in this step
SelectsPending(w) == pc[w] = "poll" /\ pc'[w] = "pend_lock"

\* C14: the job that get_pending_job picks, with no competitor, has the
\* maximum priority among all eligible pending jobs, and among the eligible
\* jobs of that priority with equal run_at it has the earliest created_at.
C14_PriorityThenCreatedAt ==
    [][\A w \in Workers :
         SelectsPending(w) =>
            \A k \in DOMAIN jobs :
               EligiblePending(k) =>
                  /\ jobs[k].priority <= jobs[cand'[w]].priority
                  /\ (/\ jobs[k].priority = jobs[cand'[w]].priority
                      /\ jobs[k].run_at = jobs[cand'[w]].run_at)
                        => jobs[cand'[w]].created_at <= jobs[k].created_at]_vars

\* C15: in the pending lease ordering run_at is ascending with NULLS LAST:
\* among eligible pending jobs of equal priority, a job with a non-null
\* (already elapsed) run_at is selected before a job whose run_at is null.
C15_RunAtNullsLast ==
    [][\A w \in Workers :
         SelectsPending(w) =>
            \A k \in DOMAIN jobs :
               (/\ EligiblePending(k)
                /\ jobs[k].priority = jobs[cand'[w]].priority
                /\ jobs[k].run_at # NullTime)
                  => jobs[cand'[w]].run_at # NullTime]_vars

\* the lease call of worker w returns to its caller in this step
LeaseReturns(w) ==
    \/ pc[w] = "pend_lock" /\ pc'[w] \in {"fail_select", "exec"}
    \/ pc[w] = "fail_lock" /\ pc'[w] \in {"poll", "exec"}

\* C16: when the conditional UPDATE of a lease operation affects zero rows
\* because another worker won the race, the operation performs the select and
\* the conditional UPDATE once more before it returns null: a first lost
\* UPDATE does not end the call.
C16_RetriesLostCas ==
    [][\A w \in Workers :
         (/\ LockStep(w)
          /\ beaten[w]
          /\ ~LockMatches(jobs, cand[w], SourceState(w)))
            => ~LeaseReturns(w)]_vars

\* the failed-retry lease of worker w is granted in this step
FailedLeaseGranted(w) == pc[w] = "fail_lock" /\ pc'[w] = "exec"

\* C17 (as stated): whenever a worker's tick ends with a failed-retry lease, no
\* pending job eligible for lease exists in the store at the moment the failed
\* job is leased.
C17_NoPendingWhenRetryLeased ==
    [][\A w \in Workers :
         FailedLeaseGranted(w) => ~\E k \in DOMAIN jobs : EligiblePending(k)]_vars

\* C17 (amended): a worker asks for the failed-retry lease only after the
\* pending lease of the same tick returned null, which it does when its SELECT
\* found no row satisfying the pending predicate at the clock reading of the
\* call, or when its conditional UPDATE affected zero rows; and a failed-retry
\* lease is granted only by that failed-retry call.
C17_PendingAskedFirst ==
    [][\A w \in Workers :
         /\ (pc[w] # "fail_select" /\ pc'[w] = "fail_select") =>
               \/ /\ pc[w] = "poll"
                  /\ ~\E k \in DOMAIN jobs : PendingEligible(jobs, k, now)
               \/ /\ pc[w] = "pend_lock"
                  /\ ~LockMatches(jobs, cand[w], "pending")
         /\ (pc[w] # "fail_lock" /\ pc'[w] = "fail_lock") => pc[w] = "fail_select"
         /\ (pc[w] # "exec" /\ pc'[w] = "exec" /\ jobs[current_job'[w].id].state = "failed")
               => pc[w] = "fail_lock"]_vars

\* a worker whose pending lease returned null is about to be granted the
\* failed-retry lease of a job while another job is pending and eligible
C17_Witness ==
    \E w \in Workers :
        /\ pc[w] = "fail_lock"
        /\ LockMatches(jobs, cand[w], "failed")
        /\ \E k \in DOMAIN jobs : EligiblePending(k)

\* base^k seconds, for the k-th failure of a job
BackoffDelay(k) == Pow(BackoffBase, k) * TicksPerSecond

\* C18: the failure that raises attempts to k (k < max_retries) sets
\* next_retry_at to exactly the time of the transition + base^k seconds, with
\* no jitter; so the job is not leased for retry until base^k seconds have
\* elapsed since that transition.
C18_BackoffSchedule ==
    [][\A j \in DOMAIN jobs :
         /\ (jobs[j].state = "processing" /\ jobs'[j].state = "failed") =>
               /\ jobs'[j].attempts = jobs[j].attempts + 1
               /\ jobs'[j].attempts < jobs'[j].max_retries
               /\ jobs'[j].next_retry_at = now + BackoffDelay(jobs'[j].attempts)
         /\ (jobs[j].state = "failed" /\ jobs'[j].state = "processing") =>
               now - jobs[j].updated_at >= BackoffDelay(jobs[j].attempts)]_vars

\* a retry_dead_job call on job j returns: False from its read of the row, or
\* True after its update_job
RetryReturnsFalse(j) ==
    /\ retry_calls' # retry_calls
    /\ retry_read' = retry_read
    /\ last_call' = [op |-> "retry_dead_job", arg |-> [id |-> j],
                     result |-> "false"]

RetryReturnsTrue(c, j) ==
    /\ retry_read[c] = j
    /\ retry_read'[c] = NoId
    /\ last_call' = [op |-> "retry_dead_job", arg |-> [id |-> j],
                     result |-> "true"]

\* C19: retry_dead_job(id) returns true if and only if the job exists and is
\* dead when the call reads it; the call that returns true leaves the job
\* with state pending, attempts 0 and next_retry_at, worker_id and run_at
\* null, and leaves its id, command, max_retries, priority and timeout (and
\* every other row) as they were; the call that returns false writes nothing.
C19_RetryDeadJobContract ==
    [][/\ retry_calls' # retry_calls =>
            /\ jobs' = jobs
            /\ \/ \E j \in JobIds : RetryReturnsFalse(j) /\ ~RetryGuard(jobs, j)
               \/ \E c \in Clients :
                    /\ retry_read[c] = NoId
                    /\ retry_read'[c] # NoId
                    /\ RetryGuard(jobs, retry_read'[c])
                    /\ last_call' = last_call
       /\ \A c \in Clients :
            (retry_read[c] # NoId /\ retry_read'[c] = NoId) =>
               LET j == retry_read[c] IN
                 /\ RetryReturnsTrue(c, j)
                 /\ DOMAIN jobs' = DOMAIN jobs
                 /\ jobs'[j].state = "pending"
                 /\ jobs'[j].attempts = 0
                 /\ jobs'[j].next_retry_at = NullTime
                 /\ jobs'[j].worker_id = NullWorker
                 /\ jobs'[j].run_at = NullTime
                 /\ jobs'[j].command = jobs[j].command
                 /\ jobs'[j].max_retries = jobs[j].max_retries
                 /\ jobs'[j].priority = jobs[j].priority
                 /\ jobs'[j].timeout = jobs[j].timeout
                 /\ \A k \in DOMAIN jobs \ {j} : jobs'[k] = jobs[k]
       /\ (last_call' # last_call /\ last_call'.op = "retry_dead_job"
             /\ last_call'.result = "true") =>
            \E c \in Clients : retry_read[c] = last_call'.arg.id]_vars

\* a retry_dead_job call has just returned true on a job whose commands had
\* failed: the job is pending again with its attempts reset
C19_Witness ==
    /\ last_call.op = "retry_dead_job"
    /\ last_call.result = "true"
    /\ last_call.arg.id \in DOMAIN jobs
    /\ jobs[last_call.arg.id].state = "pending"
    /\ jobs[last_call.arg.id].attempts = 0
    /\ Len(job_logs) > 0
    /\ \A c \in Clients : retry_read[c] = NoId

\* C20: retry_dead_job never mutates a job that is not dead: under every
\* interleaving of the clients' retry_dead_job calls with worker steps, a call
\* writes to the job's row only if the row is dead at the moment of the
\* write, and a call on a non-dead or missing job returns false and leaves
\* every row unchanged.
C20_WritesOnlyDeadRows ==
    [][/\ \A c \in Clients :
            (retry_read[c] # NoId /\ retry_read'[c] = NoId /\ jobs' # jobs) =>
               RetryGuard(jobs, retry_read[c])
       /\ \A j \in JobIds :
            (RetryReturnsFalse(j) /\ ~RetryGuard(jobs, j)) => jobs' = jobs]_vars

\* positions of Worker.run between the update_job of mark_completed /
\* mark_failed and its log_job_execution
LogPositions == {"log_completed", "log_failed", "log_dead", "except_log"}

\* C21: every transition of a job into completed, failed or dead appends
\* exactly one execution-log row for that job, whose state is the new state
\* and whose attempts is the attempts that transition stored on the row; the
\* log only grows, and leases and dead-to-pending transitions append nothing.
\* This holds in every execution, including when the log write fails between
\* the row update and the log insert.
C21_OneLogRowPerTransition ==
    [][/\ \A j \in DOMAIN jobs :
            (jobs'[j].state \in {"completed", "failed", "dead"}
               /\ jobs'[j].state # jobs[j].state) =>
              \E w \in Workers :
                 /\ pc[w] \notin LogPositions
                 /\ pc'[w] \in LogPositions
                 /\ current_job[w].id = j
       /\ \A w \in Workers :
            (pc[w] \in LogPositions /\ pc'[w] # pc[w]) =>
               /\ Len(job_logs') = Len(job_logs) + 1
               /\ job_logs'[Len(job_logs')].job_id = current_job[w].id
               /\ job_logs'[Len(job_logs')].state = jobs[current_job[w].id].state
               /\ job_logs'[Len(job_logs')].attempts = jobs[current_job[w].id].attempts
       /\ job_logs' # job_logs =>
            /\ Len(job_logs') = Len(job_logs) + 1
            /\ SubSeq(job_logs', 1, Len(job_logs)) = job_logs
            /\ jobs' = jobs
            /\ \E w \in Workers : pc[w] \in LogPositions /\ pc'[w] # pc[w]]_vars

\* Several workers poll for one job whose command succeeds.
NextOnce ==
    \/ Tick
    \/ Enqueue("c1", [id |-> "j1", command |-> "cmd"])
    \/ \E w \in Workers :
          \/ PendSelect(w) \/ PendLock(w) \/ FailSelect(w)
          \/ ProcessSuccess(w) \/ LogExecution(w)

SpecOnce == Init /\ [][NextOnce]_vars

\* the workers that hold a lease of job j, and the completed log rows of j
Holders(j) == {w \in Workers : current_job[w].id = j}

CompletedRows(j) ==
    {i \in DOMAIN job_logs :
        job_logs[i].job_id = j /\ job_logs[i].state = "completed"}

\* C22: with one enqueued job whose command succeeds and several workers
\* polling concurrently, the job is executed exactly once: one worker at most
\* is ever granted its lease and stamped as its worker_id, and that lease ends
\* in exactly one log row with state completed (each lease is either still
\* held or has produced its one row; no failed-retry lease is ever selected).
C22_ExecutedExactlyOnce ==
    /\ \A w \in Workers : pc[w] # "fail_lock"
    /\ \A j \in DOMAIN jobs :
          /\ Cardinality(Holders(j)) + Cardinality(CompletedRows(j)) <= 1
          /\ jobs[j].worker_id # NullWorker => Holders(j) = {jobs[j].worker_id}
          /\ jobs[j].state = "pending" => Holders(j) = {} /\ CompletedRows(j) = {}
          /\ jobs[j].state = "processing" => Cardinality(Holders(j)) = 1
          /\ jobs[j].state = "completed" =>
                Cardinality(Holders(j)) + Cardinality(CompletedRows(j)) = 1
          /\ jobs[j].state \in {"pending", "processing", "completed"}

\* two workers selected the job, one won it and completed it with its one log
\* row, and the other has yet to run its conditional UPDATE
C22_Witness ==
    \E w \in Workers :
        /\ pc[w] = "pend_lock"
        /\ beaten[w]
        /\ jobs[cand[w]].state = "completed"
        /\ Cardinality(CompletedRows(cand[w])) = 1

\* Workers that receive SIGINT / SIGTERM at any point of their loop, on one
\* job that may fail and be retried.
NextShutdown ==
    \/ Tick
    \/ \E d \in RaceSubmissions : Enqueue("c1", d)
    \/ \E w \in Workers : LeaseSteps(w) \/ PostSteps(w) \/ ShutdownSteps(w)

SpecShutdown == Init /\ [][NextShutdown]_vars

\* worker w leaves its loop in this step
LoopExits(w) == pc[w] # "stopped" /\ pc'[w] = "stopped"

\* C23: if the shutdown flag is set while a worker is executing a job, the
\* worker finishes the attempt and posts its outcome (the row moves to
\* completed, failed or dead and its worker_id is cleared) before the loop
\* exits; a worker that has stopped after a signal holds no job and no row is
\* left in state processing under its worker_id.
C23_OutcomePostedBeforeExit ==
    [][\A w \in Workers :
         /\ LoopExits(w) =>
               /\ shutdown_requested[w]
               /\ pc[w] = "poll"
               /\ current_job[w] = NoJob
         /\ (shutdown_requested[w] /\ pc[w] = "exec" /\ pc'[w] # "exec") =>
               /\ pc'[w] \in {"log_completed", "log_failed", "log_dead"}
               /\ current_job'[w] = current_job[w]
               /\ jobs'[current_job[w].id].state \in {"completed", "failed", "dead"}
               /\ jobs'[current_job[w].id].worker_id = NullWorker
         /\ (shutdown_requested[w] /\ pc[w] \in {"log_completed", "log_failed", "log_dead"}
               /\ pc'[w] # pc[w]) =>
               /\ pc'[w] = "poll"
               /\ Len(job_logs') = Len(job_logs) + 1
         /\ pc'[w] = "stopped" =>
               \A j \in DOMAIN jobs' :
                  ~(jobs'[j].state = "processing" /\ jobs'[j].worker_id = w)]_vars

\* a worker was signalled while it held a job and has posted the outcome of
\* the attempt on the row; it is about to log it and return to the top of the
\* loop
C23_Witness ==
    \E w \in Workers :
        /\ shutdown_requested[w]
        /\ pc[w] \in {"log_completed", "log_failed", "log_dead"}
        /\ jobs[current_job[w].id].state = LogState(pc[w])
        /\ jobs[current_job[w].id].worker_id = NullWorker

\* C24: if the shutdown flag is set while a worker is polling (it holds no
\* job), the worker stops without acquiring a lease: no job is moved to
\* processing by a worker whose shutdown flag is set, whatever point of the
\* polling loop the signal arrived at.
C24_NoLeaseAfterSignal ==
    [][\A w \in Workers :
         (shutdown_requested[w] /\ current_job[w] = NoJob) =>
            /\ current_job'[w] = NoJob
            /\ \A j \in DOMAIN jobs :
                  (jobs[j].state # "processing" /\ jobs'[j].state = "processing")
                     => jobs'[j].worker_id # w]_vars

\* the handler `except Exception` of worker w takes a step
HandlerStep(w) == pc[w] \in {"except", "except_log"} /\ pc'[w] # pc[w]

\* C25: when a store operation raises inside the worker loop, the worker logs
\* the error and continues, and the handling of the error changes no job's
\* state: every job's state after the handler ran equals its state at the
\* moment the store call raised.
C25_HandlerChangesNoState ==
    [][\A w \in Workers :
         HandlerStep(w) =>
            /\ pc'[w] # "stopped"
            /\ DOMAIN jobs' = DOMAIN jobs
            /\ \A j \in DOMAIN jobs : jobs'[j].state = jobs[j].state]_vars

\* One worker whose store calls may raise and that may be signalled, on one
\* job that may fail and be retried.
NextHandler ==
    \/ Tick
    \/ \E d \in RaceSubmissions : Enqueue("c1", d)
    \/ LeaseSteps("w1") \/ PostSteps("w1")
    \/ ErrorSteps("w1") \/ ShutdownSteps("w1")

SpecHandler == Init /\ [][NextHandler]_vars

\* the handler of worker w has marked its current job failed: the row is
\* failed or dead, with one attempt more than the leased row, and unowned
MarkedFailed(w) ==
    /\ jobs'[current_job[w].id].state \in {"failed", "dead"}
    /\ jobs'[current_job[w].id].attempts = current_job[w].attempts + 1
    /\ jobs'[current_job[w].id].worker_id = NullWorker

C27_CreatedPending ==
    [][\A d \in Submissions :
         (EnqueueReturns(d) /\ last_call'.result = "ok") =>
            /\ d.id \in DOMAIN jobs' \ DOMAIN jobs
            /\ jobs'[d.id].state = "pending"
            /\ jobs'[d.id].attempts = 0
            /\ jobs'[d.id].worker_id = NullWorker
            /\ jobs'[d.id].next_retry_at = NullTime]_vars

\* Clients submit well-formed and malformed jobs while a worker runs the
\* accepted ones.
NextValidate ==
    \/ Tick
    \/ \E c \in Clients : \E d \in ValidateSubmissions : Enqueue(c, d)
    \/ PendSelect("w1") \/ PendLock("w1") \/ FailSelect("w1")
    \/ ProcessSuccess("w1") \/ LogExecution("w1")

SpecValidate == Init /\ [][NextValidate]_vars

\* submission d fails validation: id or command is missing, priority or
\* timeout is not numeric, timeout <= 0, or run_at is not a timestamp
FailsValidation(d) ==
    \/ "id" \notin DOMAIN d
    \/ "command" \notin DOMAIN d
    \/ "priority" \in DOMAIN d /\ d.priority = NotANumber
    \/ "timeout" \in DOMAIN d /\ (d.timeout = NotANumber \/ d.timeout <= 0)
    \/ "run_at" \in DOMAIN d /\ d.run_at = InvalidTimestamp

\* C28: an enqueue that fails validation (missing id, missing command,
\* non-numeric priority or timeout, timeout <= 0, invalid run_at) or that
\* collides with an existing id raises an error and leaves the store
\* unchanged: no row is created and no existing row is modified.
C28_RejectedEnqueueWritesNothing ==
    [][\A d \in ValidateSubmissions :
         EnqueueReturns(d) =>
            /\ FailsValidation(d) =>
                  /\ last_call'.result = "invalid"
                  /\ jobs' = jobs
                  /\ job_logs' = job_logs
            /\ (~FailsValidation(d) /\ d.id \in DOMAIN jobs) =>
                  /\ last_call'.result = "duplicate"
                  /\ jobs' = jobs
                  /\ job_logs' = job_logs]_vars

\* an enqueue whose run_at is not a timestamp has been rejected while the
\* store holds a completed job with the same id, which is as it was
C28_Witness ==
    /\ last_call.op = "enqueue"
    /\ last_call.result = "invalid"
    /\ "run_at" \in DOMAIN last_call.arg
    /\ last_call.arg.id \in DOMAIN jobs
    /\ jobs[last_call.arg.id].state = "completed"
    /\ jobs[last_call.arg.id].run_at = NullTime

\* worker w runs mark_completed's update_job in this step, and its
\* log_job_execution
MarksCompleted(w) == pc[w] = "exec" /\ pc'[w] = "log_completed"

LogsCompleted(w) == pc[w] = "log_completed" /\ pc'[w] = "poll"

\* C29: mark_completed on a job sets state = completed, worker_id = null,
\* next_retry_at = null, run_at = null, records last_output and duration_ms,
\* appends one log row with success = true, and leaves attempts, max_retries,
\* priority, command and id unchanged (after success attempts is what it was
\* at dispatch).
C29_MarkCompletedContract ==
    [][\A w \in Workers :
         LET j == current_job[w].id IN
         /\ MarksCompleted(w) =>
               /\ DOMAIN jobs' = DOMAIN jobs
               /\ jobs'[j].state = "completed"
               /\ jobs'[j].worker_id = NullWorker
               /\ jobs'[j].next_retry_at = NullTime
               /\ jobs'[j].run_at = NullTime
               /\ jobs'[j].last_output = CommandOutput(TRUE)
               /\ jobs'[j].duration_ms = DurationMs
               /\ jobs'[j].attempts = jobs[j].attempts
               /\ jobs'[j].attempts = current_job[w].attempts
               /\ jobs'[j].max_retries = jobs[j].max_retries
               /\ jobs'[j].priority = jobs[j].priority
               /\ jobs'[j].command = jobs[j].command
               /\ jobs'[j].timeout = jobs[j].timeout
               /\ jobs'[j].created_at = jobs[j].created_at
               /\ \A k \in DOMAIN jobs \ {j} : jobs'[k] = jobs[k]
               /\ job_logs' = job_logs
         /\ LogsCompleted(w) =>
               /\ jobs' = jobs
               /\ job_logs' = Append(job_logs,
                     [job_id |-> j, state |-> "completed", success |-> TRUE,
                      attempts |-> jobs[j].attempts])]_vars

\* a job that had failed once was retried and completed: the row is completed
\* and unowned, carries the command's output, still counts one attempt, and
\* its success row is the last row of the log
C29_Witness ==
    \E j \in DOMAIN jobs :
        /\ jobs[j].state = "completed"
        /\ jobs[j].worker_id = NullWorker
        /\ jobs[j].last_output = CommandOutput(TRUE)
        /\ jobs[j].attempts = 1
        /\ Len(job_logs) = 2
        /\ job_logs[2] = [job_id |-> j, state |-> "completed", success |-> TRUE,
                          attempts |-> 1]

\* C30: every finished execution attempt is counted into attempts, success
\* as well as failure: the attempt that completes a job raises its attempts by
\* one, so a freshly enqueued job whose first attempt succeeds ends in state
\* completed with attempts = 1.
C30_SuccessCountsAttempt ==
    [][\A w \in Workers :
         MarksCompleted(w) =>
            /\ jobs'[current_job[w].id].state = "completed"
            /\ jobs'[current_job[w].id].attempts = current_job[w].attempts + 1]_vars

\* Workers that may be killed while they hold a lease, with clients that
\* requeue dead jobs.
NextKill ==
    \/ Tick
    \/ \E c \in Clients : \E d \in RaceSubmissions : Enqueue(c, d)
    \/ \E c \in Clients : RetrySteps(c)
    \/ \E w \in Workers : LeaseSteps(w) \/ PostSteps(w) \/ Kill(w)

SpecKill == Init /\ [][NextKill]_vars

\* worker w was killed while the row of job j was leased to it
Abandoned(w, j) ==
    /\ pc[w] = "killed"
    /\ current_job[w].id = j
    /\ j \in DOMAIN jobs
    /\ jobs[j].state = "processing"
    /\ jobs[j].worker_id = w

\* some worker takes a step
WorkerStep == \E w \in Workers : pc'[w] # pc[w]

\* C31: if a worker process is killed while it holds a lease, the leased job
\* stays in state processing with that worker_id forever: no step of any
\* other worker (no lease, no reaper) ever changes that row.
C31_AbandonedLeaseStays ==
    [][\A w \in Workers : \A j \in JobIds :
         (Abandoned(w, j) /\ WorkerStep) => jobs'[j] = jobs[j]]_vars

(* ------------------------------------------------------------------ *)
(* Progress                                                             *)
(* ------------------------------------------------------------------ *)
\* a job that may be retried: max_retries in 1..MaxRetriesIn
LiveSubmissions ==
    {[id |-> "j1", command |-> "cmd", max_retries |-> m] :
        m \in 1..MaxRetriesIn}

\* Two workers poll and execute the job; worker w1 is never killed, worker
\* w2 may be killed while it holds a lease.
NextLive ==
    \/ Tick
    \/ \E d \in LiveSubmissions : Enqueue("c1", d)
    \/ \E w \in Workers : LeaseSteps(w) \/ PostSteps(w)
    \/ Kill("w2")

\* the clock advances, and every worker that is alive keeps running its loop
\* (Worker.run only sleeps between polls)
LiveFairness ==
    /\ WF_vars(Tick)
    /\ \A w \in Workers : WF_vars(LeaseSteps(w) \/ PostSteps(w))

SpecLive == Init /\ [][NextLive]_vars /\ LiveFairness

\* job j has reached the end of its lifecycle
Terminal(j) ==
    j \in DOMAIN jobs /\ jobs[j].state \in {"completed", "dead"}

\* job j waits for an instant (run_at or next_retry_at) later than the last
\* instant of the modelled clock
WaitsBeyondHorizon(j) ==
    /\ j \in DOMAIN jobs
    /\ \/ jobs[j].state = "pending" /\ jobs[j].run_at > MaxTime * TicksPerSecond
       \/ jobs[j].state = "failed"
            /\ jobs[j].next_retry_at > MaxTime * TicksPerSecond

NextRequeue ==
    \/ LongTick
    \/ \E d \in SchemaSubmissions({"j1"}) : Enqueue("c1", d)
    \/ RetrySteps("c1")
    \/ LeaseSteps("w1") \/ PostSteps("w1")

SpecRequeue == Init /\ [][NextRequeue]_vars

\* the last call of a client was a retry_dead_job(j) that returned True
Requeued(j) ==
    last_call = [op |-> "retry_dead_job", arg |-> [id |-> j], result |-> "true"]

\* C33: after retry_dead_job succeeds on a dead job, the job is a pending job
\* with attempts 0 and receives the full retry budget: while its command
\* keeps failing it is failed with attempts in 1..max_retries-1, and it is
\* dead again after exactly max_retries further failed attempts.
C33_FullRetryBudget ==
    \A j \in JobIds :
        (j \in DOMAIN jobs /\ Requeued(j)) =>
            /\ jobs[j].state = "pending" => jobs[j].attempts = 0
            /\ jobs[j].state = "failed" =>
                   jobs[j].attempts \in 1..(jobs[j].max_retries - 1)
            /\ jobs[j].state = "dead" => jobs[j].attempts = jobs[j].max_retries

(* ------------------------------------------------------------------ *)
(* Order of the retry lease                                             *)
(* ------------------------------------------------------------------ *)
\* submissions that set the priority only
PrioritySubmissions ==
    {[id |-> j, command |-> "cmd", priority |-> p] :
        j \in JobIds, p \in 0..MaxPriority}

\* One worker retries two jobs of any priorities whose commands fail, on a
\* clock that is read at instants within a second.
NextRetryOrder ==
    \/ LongSubTick
    \/ \E d \in PrioritySubmissions : Enqueue("c1", d)
    \/ LeaseSteps("w1")
    \/ ProcessFailure("w1") \/ LogExecution("w1")

SpecRetryOrder == Init /\ [][NextRetryOrder]_vars

\* job j is failed and its retry instant has been reached at instant t
RetryDue(tbl, j, t) ==
    /\ tbl[j].state = "failed"
    /\ tbl[j].next_retry_at # NullTime
    /\ tbl[j].next_retry_at <= t

\* get_failed_job_ready_for_retry returns a job to worker w
RetryLeaseGranted(w) == pc[w] = "fail_lock" /\ pc'[w] = "exec"

\* C34: when get_failed_job_ready_for_retry grants a lease with no concurrent
\* competitor, the leased job ranks first among the failed jobs whose
\* next_retry_at is non-null and <= now: none of them has a higher priority,
\* and none of those of its priority has an earlier next_retry_at.
C34_RetryLeaseOrder ==
    [][\A w \in Workers :
         RetryLeaseGranted(w) =>
            \A k \in DOMAIN jobs :
                RetryDue(jobs, k, lease_now[w]) =>
                    \/ jobs[k].priority < jobs[cand[w]].priority
                    \/ /\ jobs[k].priority = jobs[cand[w]].priority
                       /\ jobs[cand[w]].next_retry_at <= jobs[k].next_retry_at]_vars

(* ------------------------------------------------------------------ *)
(* worker stop                                                          *)
(* ------------------------------------------------------------------ *)
\* `queuectl worker stop` while the recorded workers run jobs.
NextStop ==
    \/ Tick
    \/ \E d \in RaceSubmissions : Enqueue("c1", d)
    \/ \E w \in Workers : LeaseSteps(w) \/ PostSteps(w) \/ Stop(w)
    \/ StopSignal
    \/ StopSave

SpecStop == Init /\ [][NextStop]_vars

\* stop_all_workers rewrites the PID file and returns
StopCompletes == remaining # NotStopping /\ remaining' = NotStopping

\* worker w is executing a job or posting its outcome
Busy(w) == pc[w] \in {"exec", "log_completed", "log_failed", "log_dead"}

\* C35: after `worker stop` the PID file contains the previously recorded
\* PIDs whose processes are still alive; in particular a recorded worker that
\* received the termination signal and is still finishing its current job
\* remains recorded.
C35_PidFileHoldsSurvivors ==
    [][StopCompletes =>
         \A w \in worker_pids : Busy(w) => w \in worker_pids']_vars

(* ------------------------------------------------------------------ *)
(* Frame of a lease                                                     *)
(* ------------------------------------------------------------------ *)
\* the columns the UPDATE of _lock_job sets
LeaseColumns == {"state", "worker_id", "updated_at"}

\* get_pending_job or get_failed_job_ready_for_retry returns a job to worker w
LeaseGranted(w) == pc[w] \in {"pend_lock", "fail_lock"} /\ pc'[w] = "exec"

\* a store call of one of the two lease operations of worker w
LeaseCall(w) ==
    /\ pc[w] \in {"poll", "pend_lock", "fail_select", "fail_lock"}
    /\ pc'[w] # pc[w]

\* C36: a successful lease changes only state, worker_id and updated_at of
\* exactly one row, the leased job; every other field of that row and every
\* other row is unchanged. A lease call that grants nothing (no candidate, or
\* a lost conditional update) changes nothing in the store.
C36_LeaseFrame ==
    [][\A w \in Workers :
         /\ LeaseGranted(w) =>
              /\ DOMAIN jobs' = DOMAIN jobs
              /\ job_logs' = job_logs
              /\ \E j \in DOMAIN jobs :
                   /\ current_job'[w].id = j
                   /\ jobs'[j] # jobs[j]
                   /\ jobs'[j].state = "processing"
                   /\ jobs'[j].worker_id = w
                   /\ \A f \in DOMAIN jobs[j] \ LeaseColumns :
                        jobs'[j][f] = jobs[j][f]
                   /\ \A k \in DOMAIN jobs \ {j} : jobs'[k] = jobs[k]
         /\ (LeaseCall(w) /\ ~LeaseGranted(w)) =>
              /\ jobs' = jobs
              /\ job_logs' = job_logs]_vars

\* a worker has leased a failed job for its retry: the row keeps its attempts
\* and its next_retry_at, and the other job's row is in the table
C36_Witness ==
    /\ pc["w1"] = "exec"
    /\ DOMAIN jobs = JobIds
    /\ jobs["j1"].state = "processing"
    /\ jobs["j1"].worker_id = "w1"
    /\ jobs["j1"].attempts = 1
    /\ jobs["j1"].next_retry_at # NullTime
    /\ beaten["w2"]

(* ------------------------------------------------------------------ *)
(* Leases of one worker                                                 *)
(* ------------------------------------------------------------------ *)
\* One worker whose store calls may raise, and two jobs.
NextLoop ==
    \/ Tick
    \/ \E j \in JobIds : Enqueue("c1", [id |-> j, command |-> "cmd"])
    \/ LeaseSteps("w1") \/ PostSteps("w1") \/ ErrorSteps("w1")

SpecLoop == Init /\ [][NextLoop]_vars

\* the rows leased to worker w
LeasedTo(w) ==
    {j \in DOMAIN jobs : jobs[j].state = "processing" /\ jobs[j].worker_id = w}

\* C37: a worker holds at most one lease at a time: for each worker id at most
\* one row has state = processing with that worker_id, also after the
\* worker's loop caught an exception and its best-effort mark_failed failed.
C37_OneLeasePerWorker ==
    \A w \in Workers : Cardinality(LeasedTo(w)) <= 1

====
